---------------------------- MODULE Spec2Model ----------------------------
(***************************************************************************)
(* The qtools test broker (python/qtools/broker.py): the queue registry,   *)
(* the per-queue FIFO and consumer list, and the handlers the reactor      *)
(* calls for link, connection, credit and delivery events.                 *)
(*                                                                         *)
(* One action is one handler run to completion.  The peer's frames change  *)
(* the endpoint state the handlers read (remote state, credit) before the  *)
(* handler runs; a credit grant is its own step (Flow), the on_sendable    *)
(* event it raises is handled later.  A handler that raises ends the       *)
(* reactor's run: error records the exception and no handler runs after.   *)
(***************************************************************************)
EXTENDS Integers, Sequences, FiniteSets, TLC

(***************************************************************************)
(* Bounds of the model.                                                    *)
(***************************************************************************)
MaxMsgs == 3
MaxCredit == 2

(***************************************************************************)
(* The peers' endpoints.  A sender link is a consumer (the broker is the   *)
(* source), a receiver link is a producer.                                 *)
(***************************************************************************)
Conns == {"c1", "c2"}
Senders == {"s1", "s2"}
Receivers == {"r1"}
Links == Senders \cup Receivers
LinkOrder == <<"s1", "r1", "s2">>
Names == {"q0", "q1"}
UUIDs == {"u1"}
NoAddr == "None"
Addrs == Names \cup UUIDs

is_sender(link) == link \in Senders
is_receiver(link) == link \in Receivers
connection(link) == IF link \in {"s1", "r1"} THEN "c1" ELSE "c2"

VARIABLES
    queues,     \* _BrokerHandler.queues: address -> [messages, consumers]
    conn,       \* connection -> "UNINIT" | "ACTIVE" | "CLOSED" | "DISCONNECTED"
    remote,     \* link -> remote endpoint state "UNINIT" | "ACTIVE" | "CLOSED"
    address,    \* link -> local source (sender) or target (receiver) address
    credit,     \* link -> link.credit
    sendable,   \* link -> an on_sendable event is waiting to be handled
    error,      \* the exception that ended the reactor's run, or "none"
    stored,     \* history: address -> every message stored on the queue
    sent,       \* history: link -> every message handed to link.send
    nmsg,       \* history: number of messages that have arrived
    last,       \* history: the last step taken
    receive,    \* the receive clients (python/qtools/receive.py)
    send,       \* the send client (python/qtools/send.py)
    request     \* the request client (python/qtools/request.py)

\* The broker's state and the clients' state.
broker == <<queues, conn, remote, address, credit, sendable, error,
            stored, sent, nmsg>>
clients == <<receive, send, request>>

vars == <<queues, conn, remote, address, credit, sendable, error,
          stored, sent, nmsg, last, receive, send, request>>

(***************************************************************************)
(* _BrokerQueue                                                            *)
(***************************************************************************)
NewQueue == [messages |-> <<>>, consumers |-> <<>>]

Range(s) == {s[i] : i \in 1..Len(s)}

\* list.remove(x): drops the first element equal to x; ValueError if absent.
RECURSIVE ListRemove(_, _)
ListRemove(s, x) ==
    IF s = <<>> THEN <<>>
    ELSE IF Head(s) = x THEN Tail(s)
    ELSE <<Head(s)>> \o ListRemove(Tail(s), x)

\* add_consumer without the append.
add_consumer_skipped(q, link) ==
    IF ~is_sender(link) \/ link \in Range(q.consumers)
    THEN [err |-> "AssertionError", queue |-> q]
    ELSE [err |-> "none", queue |-> q]

\* add_consumer without its second assertion.
add_consumer_unchecked(q, link) ==
    IF ~is_sender(link)
    THEN [err |-> "AssertionError", queue |-> q]
    ELSE [err |-> "none", queue |-> [q EXCEPT !.consumers = Append(@, link)]]

\* add_consumer: [err, queue]
add_consumer(q, link) ==
    IF ~is_sender(link) \/ link \in Range(q.consumers)
    THEN [err |-> "AssertionError", queue |-> q]
    ELSE [err |-> "none", queue |-> [q EXCEPT !.consumers = Append(@, link)]]

\* remove_consumer without the try/except around list.remove.
remove_consumer_raising(q, link) ==
    IF ~is_sender(link)
    THEN [err |-> "AssertionError", queue |-> q]
    ELSE IF link \in Range(q.consumers)
    THEN [err |-> "none", queue |-> [q EXCEPT !.consumers = ListRemove(@, link)]]
    ELSE [err |-> "ValueError", queue |-> q]

\* remove_consumer that also drops the queue's pending messages.
remove_consumer_purging(q, link) ==
    IF ~is_sender(link)
    THEN [err |-> "AssertionError", queue |-> q]
    ELSE [err |-> "none", queue |-> [messages |-> <<>>,
                                     consumers |-> ListRemove(q.consumers, link)]]

\* remove_consumer: [err, queue]
remove_consumer(q, link) ==
    IF ~is_sender(link)
    THEN [err |-> "AssertionError", queue |-> q]
    ELSE IF link \in Range(q.consumers)
    THEN [err |-> "none", queue |-> [q EXCEPT !.consumers = ListRemove(@, link)]]
    ELSE [err |-> "none", queue |-> q]

\* store_message with appendleft in place of append.
store_message_front(q, message) == [q EXCEPT !.messages = <<message>> \o @]

store_message(q, message) == [q EXCEPT !.messages = Append(@, message)]

\* link.send(message): the message is handed to the link, which uses one credit.
\* A link's state here is [credit, out]: its credit and what it was handed.
link_send(lk, message) == [credit |-> lk.credit - 1, out |-> Append(lk.out, message)]

\* The loop with the popped message dropped instead of sent.
RECURSIVE forward_loop_losing(_, _)
forward_loop_losing(q, lk) ==
    IF lk.credit > 0
    THEN IF q.messages = <<>>
         THEN [queue |-> q, link |-> lk]
         ELSE forward_loop_losing([q EXCEPT !.messages = Tail(@)],
                                  [lk EXCEPT !.credit = @ - 1])
    ELSE [queue |-> q, link |-> lk]

\* The loop reading the head of the FIFO without removing it.
RECURSIVE forward_loop_peek(_, _)
forward_loop_peek(q, lk) ==
    IF lk.credit > 0
    THEN IF q.messages = <<>>
         THEN [queue |-> q, link |-> lk]
         ELSE forward_loop_peek(q, link_send(lk, Head(q.messages)))
    ELSE [queue |-> q, link |-> lk]

\* The loop without the credit test: it drains the FIFO.
RECURSIVE forward_loop_drain(_, _)
forward_loop_drain(q, lk) ==
    IF q.messages = <<>>
    THEN [queue |-> q, link |-> lk]
    ELSE forward_loop_drain([q EXCEPT !.messages = Tail(@)],
                            link_send(lk, Head(q.messages)))

\* The loop of forward_messages: [queue, link]
RECURSIVE forward_loop(_, _)
forward_loop(q, lk) ==
    IF lk.credit > 0
    THEN IF q.messages = <<>>
         THEN [queue |-> q, link |-> lk]
         ELSE forward_loop([q EXCEPT !.messages = Tail(@)],
                           link_send(lk, Head(q.messages)))
    ELSE [queue |-> q, link |-> lk]

\* forward_messages: [err, queue, link]
forward_messages(q, link, lk) ==
    IF ~is_sender(link)
    THEN [err |-> "AssertionError", queue |-> q, link |-> lk]
    ELSE [err |-> "none"] @@ forward_loop(q, lk)


(***************************************************************************)
(* _BrokerHandler                                                          *)
(***************************************************************************)
\* get_queue: the registry after lookup-or-create; the queue is at [addr].
get_queue(qs, addr) ==
    IF addr \in DOMAIN qs THEN qs ELSE qs @@ (addr :> NewQueue)

\* The values `address` can take in on_link_opening for a sender: a fresh
\* uuid4 for a dynamic source, the peer's source address otherwise.
source_address(dynamic, raddr) ==
    IF dynamic THEN UUIDs \ DOMAIN queues ELSE {raddr}

\* No on_sendable event of the connection's links is still waiting: the
\* reactor handles one connection's events in the order they were raised.
NoPending(c) == \A l \in Links : connection(l) = c => ~sendable[l]

on_connection_opening(c) ==
    /\ error = "none"
    /\ conn[c] = "UNINIT"
    /\ conn' = [conn EXCEPT ![c] = "ACTIVE"]
    /\ last' = [op |-> "on_connection_opening", arg |-> c]
    /\ UNCHANGED <<queues, remote, address, credit, sendable, error,
                   stored, sent, nmsg>>
    /\ UNCHANGED clients

on_link_opening(link, dynamic, raddr) ==
    /\ error = "none"
    /\ conn[connection(link)] = "ACTIVE"
    /\ remote[link] = "UNINIT"
    /\ remote' = [remote EXCEPT ![link] = "ACTIVE"]
    /\ last' = [op |-> "on_link_opening", arg |-> link]
    /\ IF is_sender(link)
       THEN \E addr \in source_address(dynamic, raddr) :
              IF addr = NoAddr
              THEN /\ error' = "AssertionError"
                   /\ UNCHANGED <<queues, address>>
              ELSE LET qs == get_queue(queues, addr)
                       r == add_consumer(qs[addr], link)
                   IN /\ address' = [address EXCEPT ![link] = addr]
                      /\ queues' = [qs EXCEPT ![addr] = r.queue]
                      /\ error' = r.err
       ELSE IF raddr = NoAddr
            THEN /\ error' = "AssertionError"
                 /\ UNCHANGED <<queues, address>>
            ELSE /\ address' = [address EXCEPT ![link] = raddr]
                 /\ UNCHANGED <<queues, error>>
    /\ UNCHANGED <<conn, credit, sendable, stored, sent, nmsg>>
    /\ UNCHANGED clients

\* The peer grants a sender link n more credit; the link raises on_sendable.
Flow(link, n) ==
    /\ error = "none"
    /\ is_sender(link)
    /\ conn[connection(link)] = "ACTIVE"
    /\ remote[link] = "ACTIVE"
    /\ credit[link] + n <= MaxCredit
    /\ credit' = [credit EXCEPT ![link] = @ + n]
    /\ sendable' = [sendable EXCEPT ![link] = TRUE]
    /\ last' = [op |-> "flow", arg |-> link]
    /\ UNCHANGED <<queues, conn, remote, address, error, stored, sent, nmsg>>
    /\ UNCHANGED clients

on_sendable(link) ==
    /\ error = "none"
    /\ sendable[link]
    /\ LET qs == get_queue(queues, address[link])
           r == forward_messages(qs[address[link]], link,
                                 [credit |-> credit[link], out |-> sent[link]])
       IN /\ queues' = [qs EXCEPT ![address[link]] = r.queue]
          /\ credit' = [credit EXCEPT ![link] = r.link.credit]
          /\ sent' = [sent EXCEPT ![link] = r.link.out]
          /\ error' = r.err
    /\ sendable' = [sendable EXCEPT ![link] = FALSE]
    /\ last' = [op |-> "on_sendable", arg |-> link]
    /\ UNCHANGED <<conn, remote, address, stored, nmsg>>
    /\ UNCHANGED clients

\* on_message without its loop over the consumers.
forward_each_none(st, cs) == st

\* for link in queue.consumers: queue.forward_messages(link)
\* st is [err, queue, credit, sent]; cs is the rest of the consumer list.
RECURSIVE forward_each(_, _)
forward_each(st, cs) ==
    IF cs = <<>> \/ st.err # "none" THEN st
    ELSE LET link == Head(cs)
             r == forward_messages(st.queue, link,
                                   [credit |-> st.credit[link], out |-> st.sent[link]])
         IN forward_each([err |-> r.err,
                          queue |-> r.queue,
                          credit |-> [st.credit EXCEPT ![link] = r.link.credit],
                          sent |-> [st.sent EXCEPT ![link] = r.link.out]],
                         Tail(cs))

\* on_message while fewer than limit messages have arrived.
on_message_upto(link, limit) ==
    /\ error = "none"
    /\ is_receiver(link)
    /\ conn[connection(link)] = "ACTIVE"
    /\ remote[link] = "ACTIVE"
    /\ nmsg < limit
    /\ LET addr == address[link]
           message == nmsg + 1
           qs == get_queue(queues, addr)
           q == store_message(qs[addr], message)
           r == forward_each([err |-> "none", queue |-> q,
                              credit |-> credit, sent |-> sent], q.consumers)
       IN /\ queues' = [qs EXCEPT ![addr] = r.queue]
          /\ credit' = r.credit
          /\ sent' = r.sent
          /\ error' = r.err
          /\ stored' = [stored EXCEPT ![addr] = Append(@, message)]
    /\ nmsg' = nmsg + 1
    /\ last' = [op |-> "on_message", arg |-> link]
    /\ UNCHANGED <<conn, remote, address, sendable>>
    /\ UNCHANGED clients

on_message(link) == on_message_upto(link, MaxMsgs)

\* The peer detaches the link without an error condition.  For a sender the
\* handler reads the name `link`, which is not defined: NameError.
on_link_closing(link) ==
    /\ error = "none"
    /\ conn[connection(link)] = "ACTIVE"
    /\ remote[link] = "ACTIVE"
    /\ NoPending(connection(link))
    /\ remote' = [remote EXCEPT ![link] = "CLOSED"]
    /\ error' = IF is_sender(link) THEN "NameError" ELSE "none"
    /\ last' = [op |-> "on_link_closing", arg |-> link]
    /\ UNCHANGED <<queues, conn, address, credit, sendable, stored, sent, nmsg>>
    /\ UNCHANGED clients

\* The peer detaches the link with an error condition: the reactor calls
\* on_link_error, which _BrokerHandler does not define.
on_link_error(link) ==
    /\ error = "none"
    /\ conn[connection(link)] = "ACTIVE"
    /\ remote[link] = "ACTIVE"
    /\ NoPending(connection(link))
    /\ remote' = [remote EXCEPT ![link] = "CLOSED"]
    /\ last' = [op |-> "on_link_error", arg |-> link]
    /\ UNCHANGED <<queues, conn, address, credit, sendable, error,
                   stored, sent, nmsg>>
    /\ UNCHANGED clients

\* remove_consumers: the walk over the connection's REMOTE_ACTIVE links.
\* st is [err, queues]; ls is the rest of the connection's link list.
RECURSIVE remove_walk(_, _, _)
remove_walk(st, c, ls) ==
    IF ls = <<>> \/ st.err # "none" THEN st
    ELSE LET link == Head(ls)
         IN IF connection(link) = c /\ remote[link] = "ACTIVE" /\ is_sender(link)
            THEN IF address[link] \notin DOMAIN st.queues
                 THEN [st EXCEPT !.err = "KeyError"]
                 ELSE LET r == remove_consumer(st.queues[address[link]], link)
                      IN remove_walk([err |-> r.err,
                                      queues |-> [st.queues EXCEPT
                                                    ![address[link]] = r.queue]],
                                     c, Tail(ls))
            ELSE remove_walk(st, c, Tail(ls))

remove_consumers(c) == remove_walk([err |-> "none", queues |-> queues], c, LinkOrder)

on_connection_closing(c) ==
    /\ error = "none"
    /\ conn[c] = "ACTIVE"
    /\ NoPending(c)
    /\ conn' = [conn EXCEPT ![c] = "CLOSED"]
    /\ LET r == remove_consumers(c)
       IN queues' = r.queues /\ error' = r.err
    /\ last' = [op |-> "on_connection_closing", arg |-> c]
    /\ UNCHANGED <<remote, address, credit, sendable, stored, sent, nmsg>>
    /\ UNCHANGED clients

on_disconnected(c) ==
    /\ error = "none"
    /\ conn[c] \in {"ACTIVE", "CLOSED"}
    /\ NoPending(c)
    /\ conn' = [conn EXCEPT ![c] = "DISCONNECTED"]
    /\ LET r == remove_consumers(c)
       IN queues' = r.queues /\ error' = r.err
    /\ last' = [op |-> "on_disconnected", arg |-> c]
    /\ UNCHANGED <<remote, address, credit, sendable, stored, sent, nmsg>>
    /\ UNCHANGED clients

\* No client process runs: the broker (or the queue) is exercised alone.
NoClients ==
    /\ receive = "absent"
    /\ send = "absent"
    /\ request = "absent"

Init ==
    /\ queues = <<>>
    /\ conn = [c \in Conns |-> "UNINIT"]
    /\ remote = [l \in Links |-> "UNINIT"]
    /\ address = [l \in Links |-> NoAddr]
    /\ credit = [l \in Links |-> 0]
    /\ sendable = [l \in Links |-> FALSE]
    /\ error = "none"
    /\ stored = [a \in Addrs |-> <<>>]
    /\ sent = [l \in Links |-> <<>>]
    /\ nmsg = 0
    /\ last = [op |-> "init", arg |-> "none"]
    /\ NoClients

Next ==
    \/ \E c \in Conns : on_connection_opening(c)
    \/ \E link \in Links, dynamic \in BOOLEAN, raddr \in Names \cup {NoAddr} :
         on_link_opening(link, dynamic, raddr)
    \/ \E link \in Links, n \in 1..MaxCredit : Flow(link, n)
    \/ \E link \in Links : on_sendable(link)
    \/ \E link \in Links : on_message(link)
    \/ \E link \in Links : on_link_closing(link)
    \/ \E link \in Links : on_link_error(link)
    \/ \E c \in Conns : on_connection_closing(c)
    \/ \E c \in Conns : on_disconnected(c)

Spec == Init /\ [][Next]_vars

(***************************************************************************)
(* A _BrokerQueue driven directly, one method call per step, with any link *)
(* as the argument.  error holds the outcome of the last call, and last   *)
(* whether the link was in the consumer list when the call began.          *)
(***************************************************************************)
QAddr == "q0"

call_add_consumer(link) ==
    /\ LET r == add_consumer(queues[QAddr], link)
       IN /\ queues' = [queues EXCEPT ![QAddr] = r.queue]
          /\ error' = r.err
    /\ last' = [op |-> "add_consumer", arg |-> link,
                 present |-> link \in Range(queues[QAddr].consumers)]
    /\ UNCHANGED <<conn, remote, address, credit, sendable, stored, sent, nmsg>>
    /\ UNCHANGED clients

call_remove_consumer(link) ==
    /\ LET r == remove_consumer(queues[QAddr], link)
       IN /\ queues' = [queues EXCEPT ![QAddr] = r.queue]
          /\ error' = r.err
    /\ last' = [op |-> "remove_consumer", arg |-> link,
                 present |-> link \in Range(queues[QAddr].consumers)]
    /\ UNCHANGED <<conn, remote, address, credit, sendable, stored, sent, nmsg>>
    /\ UNCHANGED clients

call_store_message ==
    /\ nmsg < MaxMsgs
    /\ queues' = [queues EXCEPT ![QAddr] = store_message(@, nmsg + 1)]
    /\ stored' = [stored EXCEPT ![QAddr] = Append(@, nmsg + 1)]
    /\ nmsg' = nmsg + 1
    /\ error' = "none"
    /\ last' = [op |-> "store_message", arg |-> "none"]
    /\ UNCHANGED <<conn, remote, address, credit, sendable, sent>>
    /\ UNCHANGED clients

call_forward_messages(link, n) ==
    /\ LET r == forward_messages(queues[QAddr], link,
                                 [credit |-> n, out |-> sent[link]])
       IN /\ queues' = [queues EXCEPT ![QAddr] = r.queue]
          /\ credit' = [credit EXCEPT ![link] = r.link.credit]
          /\ sent' = [sent EXCEPT ![link] = r.link.out]
          /\ error' = r.err
    /\ last' = [op |-> "forward_messages", arg |-> link]
    /\ UNCHANGED <<conn, remote, address, sendable, stored, nmsg>>
    /\ UNCHANGED clients

InitQueue ==
    /\ queues = (QAddr :> NewQueue)
    /\ conn = [c \in Conns |-> "UNINIT"]
    /\ remote = [l \in Links |-> "UNINIT"]
    /\ address = [l \in Links |-> NoAddr]
    /\ credit = [l \in Links |-> 0]
    /\ sendable = [l \in Links |-> FALSE]
    /\ error = "none"
    /\ stored = [a \in Addrs |-> <<>>]
    /\ sent = [l \in Links |-> <<>>]
    /\ nmsg = 0
    /\ last = [op |-> "init", arg |-> "none"]
    /\ NoClients

NextQueue ==
    \/ \E link \in Links : call_add_consumer(link)
    \/ \E link \in Links : call_remove_consumer(link)
    \/ call_store_message
    \/ \E link \in Links, n \in 0..MaxCredit : call_forward_messages(link, n)

SpecQueue == InitQueue /\ [][NextQueue]_vars

(***************************************************************************)
(* Properties                                                              *)
(***************************************************************************)
RECURSIVE IsSubseq(_, _)
IsSubseq(s, t) ==
    IF s = <<>> THEN TRUE
    ELSE IF t = <<>> THEN FALSE
    ELSE IF Head(s) = Head(t) THEN IsSubseq(Tail(s), Tail(t))
    ELSE IsSubseq(s, Tail(t))

Consumers(a) == IF a \in DOMAIN queues THEN queues[a].consumers ELSE <<>>
Pending(qs, a) == IF a \in DOMAIN qs THEN qs[a].messages ELSE <<>>
InSomeQueue(link) == \E a \in DOMAIN queues : link \in Range(queues[a].consumers)
\* The places (link, index) at which message m was handed over.
Handed(m) == {<<l, i>> \in Links \X (1..MaxMsgs + 1) : i <= Len(sent[l]) /\ sent[l][i] = m}

\* C1: what the broker has handed to a link is a subsequence, in the same
\* order, of what has been stored on the link's queue; a link with no queue
\* has been handed nothing.
C1_DeliveredIsSubsequence ==
    \A l \in Links :
        IF address[l] \in Addrs
        THEN IsSubseq(sent[l], stored[address[l]])
        ELSE sent[l] = <<>>

C1_Witness ==
    /\ address["s1"] = address["s2"]
    /\ sent["s1"] = <<1, 3>>
    /\ sent["s2"] = <<2>>

\* C2: every stored message is handed to at most one link, at most once.
C2_AtMostOnce ==
    \A m \in 1..nmsg : Cardinality(Handed(m)) <= 1

C2_Witness ==
    /\ address["s1"] = address["s2"]
    /\ nmsg = MaxMsgs
    /\ Len(sent["s1"]) + Len(sent["s2"]) = MaxMsgs
    /\ sent["s1"] # <<>>
    /\ sent["s2"] # <<>>
    /\ last.op = "on_message"

\* One step, seen from each link: k messages handed over, out of the queue's
\* pending messages (with the one that arrives in this step, if any).
C4_Step ==
    \A l \in Links :
        LET k == Len(sent'[l]) - Len(sent[l])
            a == address[l]
            pend == IF stored'[a] # stored[a]
                    THEN Append(Pending(queues, a), nmsg')
                    ELSE Pending(queues, a)
        IN /\ k >= 0
           /\ k <= credit[l]
           /\ credit'[l] >= 0
           /\ k > 0 =>
                /\ credit'[l] = credit[l] - k
                /\ SubSeq(sent'[l], 1, Len(sent[l])) = sent[l]
                /\ (\A o \in Links \ {l} : sent'[o] = sent[o]) =>
                     /\ SubSeq(sent'[l], Len(sent[l]) + 1, Len(sent'[l]))
                          = SubSeq(pend, 1, k)
                     /\ Pending(queues', a) = SubSeq(pend, k + 1, Len(pend))

\* C4: a step hands a link no more messages than the credit the link had
\* before it, each at the cost of one credit; what one link is handed is the
\* head of the pending FIFO in arrival order, and the rest stays enqueued.
C4_CreditBoundsForwarding == [][C4_Step]_vars

\* One credit granted, three messages arrived: the first is delivered and
\* the other two stay enqueued.
C4_Witness ==
    \E l \in Senders :
        /\ address[l] \in DOMAIN queues
        /\ stored[address[l]] = <<1, 2, 3>>
        /\ sent[l] = <<1>>
        /\ queues[address[l]].messages = <<2, 3>>
        /\ credit[l] = 0

\* C5: after on_link_closing has run for a sender link, the link is in no
\* queue's consumer list and the handler has raised no error.
C5_DetachRemovesConsumer ==
    (last.op = "on_link_closing" /\ is_sender(last.arg)) =>
        (error = "none" /\ ~InSomeQueue(last.arg))

\* C6: after on_disconnected or on_connection_closing has run for a
\* connection, none of its sender links is in a queue's consumer list.
C6_DisconnectReapsConsumers ==
    last.op \in {"on_disconnected", "on_connection_closing"} =>
        \A l \in Senders : connection(l) = last.arg => ~InSomeQueue(l)

\* C7: a queue's consumer list holds no link twice, and every link in it is
\* a sender link whose remote endpoint is active.
C7_ConsumerListInvariant ==
    \A a \in DOMAIN queues :
        LET cs == queues[a].consumers
        IN /\ \A i, j \in 1..Len(cs) : cs[i] = cs[j] => i = j
           /\ \A i \in 1..Len(cs) : is_sender(cs[i]) /\ remote[cs[i]] = "ACTIVE"

IsSuffix(p, s) == Len(p) <= Len(s) /\ p = SubSeq(s, Len(s) - Len(p) + 1, Len(s))

\* A closing step changes no queue; after any step a queue's pending messages
\* are the last ones stored on it, in arrival order.
C8_Step ==
    /\ last'.op \in {"on_link_closing", "on_connection_closing", "on_disconnected"} =>
          /\ DOMAIN queues' = DOMAIN queues
          /\ \A a \in DOMAIN queues : queues'[a].messages = queues[a].messages
          /\ stored' = stored
          /\ sent' = sent
    /\ \A a \in DOMAIN queues' : IsSuffix(queues'[a].messages, stored'[a])

\* C8: link detach, connection close and connection loss leave the set of
\* queues, each queue's pending messages and what was delivered unchanged,
\* so the pending messages stay in arrival order for a later consumer.
C8_ClosingKeepsQueuesAndMessages == [][C8_Step]_vars

\* The connection of a queue's producer and only consumer is lost with three
\* messages pending: they stay, for a consumer that has yet to attach.
C8_Witness ==
    /\ last = [op |-> "on_disconnected", arg |-> "c1"]
    /\ address["s1"] = address["r1"]
    /\ address["r1"] \in DOMAIN queues
    /\ queues[address["r1"]].messages = <<1, 2, 3>>
    /\ queues[address["r1"]].consumers = <<>>
    /\ remote["s2"] = "UNINIT"

C9_Step ==
    (last'.op = "add_consumer" /\ last'.present) =>
        (error' = "AssertionError" /\ queues' = queues)

\* C9: add_consumer with a link already in the consumer list fails its
\* assertion and leaves the consumer list and the pending messages as they were.
C9_DuplicateAddRejected == [][C9_Step]_vars

C9_Witness ==
    /\ last.op = "add_consumer"
    /\ error = "AssertionError"
    /\ is_sender(last.arg)
    /\ last.present
    /\ Len(queues[QAddr].consumers) = 2
    /\ queues[QAddr].messages # <<>>

C10_Step ==
    (last'.op = "remove_consumer" /\ is_sender(last'.arg)) =>
        /\ error' = "none"
        /\ ~last'.present => queues' = queues
        /\ remove_consumer(queues'[QAddr], last'.arg)
             = [err |-> "none", queue |-> queues'[QAddr]]

\* C10: remove_consumer with a sender link raises nothing; with a link that
\* is not in the list it changes nothing; a second call changes nothing more.
C10_RemoveIdempotent == [][C10_Step]_vars

C10_Witness ==
    /\ last.op = "remove_consumer"
    /\ is_sender(last.arg)
    /\ error = "none"
    /\ ~last.present
    /\ queues[QAddr].consumers # <<>>

\* The broker with every link attached to one queue.
LiveAddrs == {"q0"}

LiveNext ==
    \/ \E c \in Conns : on_connection_opening(c)
    \/ \E link \in Links, raddr \in LiveAddrs : on_link_opening(link, FALSE, raddr)
    \/ \E link \in Links, n \in 1..MaxCredit : Flow(link, n)
    \/ \E link \in Links : on_sendable(link)
    \/ \E link \in Links : on_message(link)
    \/ \E link \in Links : on_link_closing(link)
    \/ \E link \in Links : on_link_error(link)
    \/ \E c \in Conns : on_connection_closing(c)
    \/ \E c \in Conns : on_disconnected(c)

\* The reactor hands every raised on_sendable event to its handler.
LiveSpec == Init /\ [][LiveNext]_vars /\ \A l \in Senders : WF_vars(on_sendable(l))

HasCreditWhileNonEmpty(a) ==
    Pending(queues, a) # <<>> => \E l \in Range(Consumers(a)) : credit[l] > 0

\* C3: if, whenever a queue has pending messages, one of its consumers has
\* credit, then every message stored on the queue is eventually handed to a
\* link (the reactor handling every raised on_sendable event).
C3_EventuallyDelivered ==
    \A a \in LiveAddrs :
        ([] HasCreditWhileNonEmpty(a))
        => \A m \in 1..MaxMsgs :
             [](m \in Range(stored[a]) => <>(Handed(m) # {}))

\* Every arrival found a consumer with credit: all messages are handed over
\* and a consumer still has credit.
C3_Witness ==
    \E a \in LiveAddrs :
        /\ last.op = "on_message"
        /\ Len(stored[a]) = MaxMsgs
        /\ Pending(queues, a) = <<>>
        /\ \A m \in 1..MaxMsgs : Handed(m) # {}
        /\ \E l \in Range(Consumers(a)) : credit[l] > 0

(***************************************************************************)
(* The receive client (python/qtools/receive.py).  Two receive clients are *)
(* the peers of the broker's sender links; a third client is the producer  *)
(* on the broker's receiver link.  receive[l] is the client's handler      *)
(* state: its counter, the bodies it has written to its output, whether    *)
(* it has requested close, and seen, the number of deliveries of the link  *)
(* the reactor has dispatched to it.                                       *)
(***************************************************************************)
\* The bodies the producer sends, in order.
Bodies == <<"a", "b", "c", "d", "e", "f">>

\* -c for each of the two clients that share the bodies: half of them.
Limit == Len(Bodies) \div Cardinality(Senders)

\* The values of -c the handler is exercised with.
Counts == 0..Limit

\* _Handler.__init__ with command.max_count.
receive_init(max_count) ==
    [max_count |-> max_count, received_messages |-> 0, output |-> <<>>,
     closed |-> FALSE, seen |-> 0]

\* on_message that writes a delivery that arrives after the limit was reached.
receive_on_message_unlimited(h, body) ==
    [h EXCEPT !.received_messages = @ + 1,
              !.output = Append(@, body),
              !.seen = @ + 1]

\* _Handler.on_message
receive_on_message(h, body) ==
    IF h.received_messages = h.max_count
    THEN [h EXCEPT !.seen = @ + 1]
    ELSE [h EXCEPT !.received_messages = @ + 1,
                   !.output = Append(@, body),
                   !.closed = @ \/ (h.received_messages + 1 = h.max_count),
                   !.seen = @ + 1]

\* The reactor dispatches the next delivery of link l to the client.
deliver(l) ==
    /\ error = "none"
    /\ receive[l].seen < Len(sent[l])
    /\ receive' = [receive EXCEPT
                     ![l] = receive_on_message(@, Bodies[sent[l][@.seen + 1]])]
    /\ last' = [op |-> "deliver", arg |-> l]
    /\ UNCHANGED <<broker, send, request>>

\* A client that has requested close closes its connection.
closing(c) ==
    /\ \E l \in Senders : connection(l) = c /\ receive[l].closed
    /\ on_connection_closing(c)

\* The producer sends the next body once both clients are subscribed.
produce(link) ==
    /\ \A l \in Senders : address[l] = QAddr
    /\ on_message_upto(link, Len(Bodies))

InitReceive ==
    /\ queues = <<>>
    /\ conn = [c \in Conns |-> "UNINIT"]
    /\ remote = [l \in Links |-> "UNINIT"]
    /\ address = [l \in Links |-> NoAddr]
    /\ credit = [l \in Links |-> 0]
    /\ sendable = [l \in Links |-> FALSE]
    /\ error = "none"
    /\ stored = [a \in Addrs |-> <<>>]
    /\ sent = [l \in Links |-> <<>>]
    /\ nmsg = 0
    /\ last = [op |-> "init", arg |-> "none"]
    /\ receive = [l \in Senders |-> receive_init(Limit)]
    /\ send = "absent"
    /\ request = "absent"

NextReceive ==
    \/ \E c \in Conns : on_connection_opening(c)
    \/ \E link \in Links : on_link_opening(link, FALSE, QAddr)
    \/ \E link \in Senders, n \in 1..MaxCredit : Flow(link, n)
    \/ \E link \in Senders : on_sendable(link)
    \/ \E link \in Receivers : produce(link)
    \/ \E l \in Senders : deliver(l)
    \/ \E c \in Conns : closing(c)

SpecReceive == InitReceive /\ [][NextReceive]_vars

\* The receive handler alone: any delivery may be dispatched to a client.
call_on_message(l, body) ==
    /\ receive[l].seen <= MaxMsgs
    /\ receive' = [receive EXCEPT ![l] = receive_on_message(@, body)]
    /\ last' = [op |-> "call_on_message", arg |-> l]
    /\ UNCHANGED <<broker, send, request>>

InitReceiveUnit ==
    /\ queues = <<>>
    /\ conn = [c \in Conns |-> "UNINIT"]
    /\ remote = [l \in Links |-> "UNINIT"]
    /\ address = [l \in Links |-> NoAddr]
    /\ credit = [l \in Links |-> 0]
    /\ sendable = [l \in Links |-> FALSE]
    /\ error = "none"
    /\ stored = [a \in Addrs |-> <<>>]
    /\ sent = [l \in Links |-> <<>>]
    /\ nmsg = 0
    /\ last = [op |-> "init", arg |-> "none"]
    /\ \E max_count \in Counts : receive = [l \in Senders |-> receive_init(max_count)]
    /\ send = "absent"
    /\ request = "absent"

NextReceiveUnit ==
    \E l \in Senders, body \in Range(Bodies) : call_on_message(l, body)

SpecReceiveUnit == InitReceiveUnit /\ [][NextReceiveUnit]_vars

\* Every body has arrived at the broker, has been handed to a client, and
\* every client has handled every delivery handed to it.
AllHandled ==
    /\ nmsg = Len(Bodies)
    /\ Pending(queues, QAddr) = <<>>
    /\ \A l \in Senders : receive[l].seen = Len(sent[l])

Distinct(s) == \A i, j \in 1..Len(s) : s[i] = s[j] => i = j

\* C11: two receive clients with -c 3 on one queue that was sent the six
\* bodies a..f: once every body is handled, each client has written exactly
\* three distinct bodies and together they have written exactly a..f,
\* whatever credit the clients granted.
C11_EachReceiverGetsHalf ==
    AllHandled =>
        /\ \A l \in Senders : Len(receive[l].output) = Limit
                               /\ Distinct(receive[l].output)
        /\ UNION {Range(receive[l].output) : l \in Senders} = Range(Bodies)

C17_Step ==
    \A l \in Senders :
        LET h == receive[l]
            g == receive'[l]
        IN /\ Len(g.output) <= g.max_count
           /\ (h.received_messages # h.max_count /\ g.received_messages = g.max_count)
                  => g.closed
           /\ h.received_messages = h.max_count
                  => /\ g.received_messages = h.received_messages
                     /\ g.output = h.output

\* C17: a receive client with limit max never writes more than max
\* messages; the step that brings received_messages to max requests close;
\* a delivery handled after that changes neither the counter nor the output.
C17_LimitBoundsOutput == [][C17_Step]_vars

\* A delivery was dispatched to a client that had already reached its limit.
C17_Witness ==
    /\ last.op = "call_on_message"
    /\ LET h == receive[last.arg]
       IN /\ h.max_count > 0
          /\ h.received_messages = h.max_count
          /\ h.seen > h.received_messages
          /\ h.closed

(***************************************************************************)
(* The send client (python/qtools/send.py).  send is the state of the      *)
(* command and of its handler; the sender links are named by their target  *)
(* URLs.  The input thread runs beside the reactor: its send_input calls   *)
(* may fall between the dispatcher's pop and the rest of send_message, so  *)
(* send_message is two steps (pc is "popped" between them, item and link   *)
(* hold the popped item and event.link).  Every other handler is one step  *)
(* and runs only when the reactor is not inside send_message.              *)
(***************************************************************************)
MaxArgs == 2
MaxLines == 1

\* The target URLs of the command line, in order.
SendUrls == <<"t1", "t2">>

\* The end-of-input sentinel; a message is its number in enqueue order.
None == 0

\* event.link of an application event.
NoLink == "None"

Front(s) == SubSeq(s, 1, Len(s) - 1)
Last(s) == s[Len(s)]

\* send_input: push at the head, raise an input event.  After close the
\* event injector is closed: delivered tells whether the event still
\* reaches the reactor.
send_input(st, message, delivered) ==
    [st EXCEPT !.messages = <<message>> \o @,
               !.nid = IF message = None THEN @ ELSE @ + 1,
               !.inputs = IF delivered THEN @ + 1 ELSE @]

\* SendCommand.__init__ and _SendHandler.__init__
send_new(urls) ==
    [urls |-> urls, args |-> 0, messages |-> <<>>, nid |-> 0, inputs |-> 0,
     ready |-> FALSE, feeder |-> "waiting", lines |-> 0,
     started |-> FALSE, senders |-> <<>>, stop_requested |-> FALSE,
     opened_senders |-> 0, sent_messages |-> 0, settled_messages |-> 0,
     opened |-> {}, credit |-> [s \in Range(urls) |-> 0],
     flow |-> [s \in Range(urls) |-> FALSE],
     closed |-> FALSE, pc |-> "idle", item |-> None, link |-> NoLink,
     log |-> <<>>, popped_none |-> FALSE, pick |-> NoLink]

\* init: the loop over args.message.
RECURSIVE init_messages(_, _)
init_messages(st, k) ==
    IF k = 0 THEN st
    ELSE init_messages(send_input(st, st.nid + 1, TRUE), k - 1)

\* init with k -m options.
send_init(st, k) ==
    LET q == init_messages(st, k)
        r == [q EXCEPT !.args = k]
    IN IF r.messages # <<>> THEN send_input(r, None, TRUE) ELSE r

\* on_start: the loop over command.urls.
RECURSIVE create_senders(_, _)
create_senders(senders, urls) ==
    IF urls = <<>> THEN senders
    ELSE create_senders(<<Head(urls)>> \o senders, Tail(urls))

\* close
send_close(st) == [st EXCEPT !.closed = TRUE]

\* send_message up to and including the pop.
send_message_pop(st, link) ==
    IF st.stop_requested THEN st
    ELSE IF ~st.ready THEN st
    ELSE IF st.messages = <<>> THEN st
    ELSE [st EXCEPT !.messages = Front(@),
                    !.item = Last(st.messages),
                    !.link = link,
                    !.pc = "popped",
                    !.popped_none = @ \/ Last(st.messages) = None]

\* The item goes back where pop will find it first, instead of to the tail.
return_item_head(messages, message) == <<message>> \o messages

\* The item is not put back: the message is lost.
return_item_dropped(messages, message) == messages

\* self.command.messages.append(message)
return_item(messages, message) == Append(messages, message)

\* The sender deque left as it is: the next pop finds the same sender.
rotate_none(senders) == senders

\* sender = self.senders.pop(); self.senders.appendleft(sender)
rotate(senders) == <<Last(senders)>> \o Front(senders)

\* What send_message does with the popped item.
outcome(st) ==
    IF st.item = None
    THEN IF st.sent_messages = st.settled_messages THEN "close" ELSE "stop"
    ELSE LET sender == IF st.link = NoLink THEN Last(st.senders) ELSE st.link
         IN IF st.credit[sender] = 0 THEN "returned" ELSE "sent"

\* send_message after the pop: what it does with the one item it holds.
send_message_once(st) ==
    LET message == st.item
        idle == [st EXCEPT !.pc = "idle", !.item = None, !.link = NoLink]
    IN IF message = None
       THEN IF st.sent_messages = st.settled_messages
            THEN send_close(idle)
            ELSE [idle EXCEPT !.stop_requested = TRUE]
       ELSE LET by_input == st.link = NoLink
                sender == IF by_input THEN Last(st.senders) ELSE st.link
                chosen == IF by_input
                          THEN [idle EXCEPT !.senders = rotate(@),
                                            !.pick = sender]
                          ELSE idle
            IN IF chosen.credit[sender] = 0
               THEN [chosen EXCEPT !.messages = return_item(@, message)]
               ELSE [chosen EXCEPT
                       !.credit[sender] = @ - 1,
                       !.log = Append(@, [sender |-> sender, body |-> message]),
                       !.sent_messages = @ + 1]

\* A dispatcher that goes on popping and transmitting on the sender it last
\* used while the tail holds a message and the sender has credit.
RECURSIVE drain(_, _)
drain(st, sender) ==
    IF st.messages = <<>> \/ Last(st.messages) = None \/ st.credit[sender] = 0
    THEN st
    ELSE drain([st EXCEPT
                  !.messages = Front(@),
                  !.credit[sender] = @ - 1,
                  !.log = Append(@, [sender |-> sender, body |-> Last(st.messages)]),
                  !.sent_messages = @ + 1],
               sender)

send_message_draining(st) ==
    IF outcome(st) = "sent"
    THEN drain(send_message_once(st), Last(send_message_once(st).log).sender)
    ELSE send_message_once(st)

\* send_message after the pop.
send_message_rest(st) == send_message_once(st)

send_on_start ==
    /\ ~send.started
    /\ send.pc = "idle"
    /\ send' = [send EXCEPT !.started = TRUE,
                            !.senders = create_senders(@, send.urls)]
    /\ last' = [op |-> "on_start", arg |-> NoLink]
    /\ UNCHANGED <<broker, receive, request>>

\* The latch is set by the first link that opens.
any_opened(opened_senders, senders) == opened_senders >= 1

\* self.opened_senders == len(self.senders)
all_opened(opened_senders, senders) == opened_senders = Len(senders)

send_on_link_opened(s) ==
    /\ send.started
    /\ send.pc = "idle"
    /\ s \in Range(send.senders) \ send.opened
    /\ send' = [send EXCEPT
                  !.opened = @ \cup {s},
                  !.opened_senders = @ + 1,
                  !.ready = @ \/ all_opened(send.opened_senders + 1, send.senders)]
    /\ last' = [op |-> "on_link_opened", arg |-> s]
    /\ UNCHANGED <<broker, receive, request>>

\* _InputThread.run: one line read and enqueued.
feeder_line ==
    /\ send.ready
    /\ send.feeder # "done"
    /\ send.lines < MaxLines
    /\ \E delivered \in {TRUE, ~send.closed} :
         send' = [send_input(send, send.nid + 1, delivered)
                    EXCEPT !.feeder = "reading", !.lines = @ + 1]
    /\ last' = [op |-> "feeder_line", arg |-> NoLink]
    /\ UNCHANGED <<broker, receive, request>>

\* _InputThread.run: end of the input.
feeder_eof ==
    /\ send.ready
    /\ send.feeder # "done"
    /\ \E delivered \in {TRUE, ~send.closed} :
         send' = [send_input(send, None, delivered) EXCEPT !.feeder = "done"]
    /\ last' = [op |-> "feeder_eof", arg |-> NoLink]
    /\ UNCHANGED <<broker, receive, request>>

\* The peer grants sender s n more credit; the link raises a flow event.
send_flow(s, n) ==
    /\ s \in send.opened
    /\ ~send.closed
    /\ send.credit[s] + n <= MaxCredit
    /\ send' = [send EXCEPT !.credit[s] = @ + n, !.flow[s] = TRUE]
    /\ last' = [op |-> "flow", arg |-> s]
    /\ UNCHANGED <<broker, receive, request>>

\* on_sendable: the flow event of a link that has credit.
send_on_sendable(s) ==
    /\ send.pc = "idle"
    /\ s \in send.opened
    /\ send.flow[s]
    /\ send.credit[s] > 0
    /\ send' = send_message_pop([send EXCEPT !.flow[s] = FALSE], s)
    /\ last' = [op |-> "on_sendable", arg |-> s]
    /\ UNCHANGED <<broker, receive, request>>

send_on_input ==
    /\ send.pc = "idle"
    /\ send.inputs > 0
    /\ send' = send_message_pop([send EXCEPT !.inputs = @ - 1], NoLink)
    /\ last' = [op |-> "on_input", arg |-> NoLink]
    /\ UNCHANGED <<broker, receive, request>>

send_message ==
    /\ send.pc = "popped"
    /\ send' = send_message_rest(send)
    /\ last' = [op |-> "send_message", arg |-> outcome(send)]
    /\ UNCHANGED <<broker, receive, request>>

\* on_settled: the peer settles one of the deliveries in flight.
send_on_settled ==
    /\ send.pc = "idle"
    /\ ~send.closed
    /\ send.settled_messages < send.sent_messages
    /\ LET st == [send EXCEPT !.settled_messages = @ + 1]
       IN send' = IF st.stop_requested /\ st.sent_messages = st.settled_messages
                  THEN send_close(st)
                  ELSE st
    /\ last' = [op |-> "on_settled", arg |-> NoLink]
    /\ UNCHANGED <<broker, receive, request>>

InitSend ==
    /\ queues = <<>>
    /\ conn = [c \in Conns |-> "UNINIT"]
    /\ remote = [l \in Links |-> "UNINIT"]
    /\ address = [l \in Links |-> NoAddr]
    /\ credit = [l \in Links |-> 0]
    /\ sendable = [l \in Links |-> FALSE]
    /\ error = "none"
    /\ stored = [a \in Addrs |-> <<>>]
    /\ sent = [l \in Links |-> <<>>]
    /\ nmsg = 0
    /\ last = [op |-> "init", arg |-> NoLink]
    /\ receive = "absent"
    /\ \E n \in 1..Len(SendUrls), k \in 0..MaxArgs :
         send = send_init(send_new(SubSeq(SendUrls, 1, n)), k)
    /\ request = "absent"

NextSend ==
    \/ send_on_start
    \/ \E s \in Range(SendUrls) : send_on_link_opened(s)
    \/ feeder_line
    \/ feeder_eof
    \/ \E s \in Range(SendUrls), n \in 1..MaxCredit : send_flow(s, n)
    \/ \E s \in Range(SendUrls) : send_on_sendable(s)
    \/ send_on_input
    \/ send_message
    \/ send_on_settled

SpecSend == InitSend /\ [][NextSend]_vars

C12_Step ==
    send.popped_none =>
        /\ send'.log = send.log
        /\ (send.pc = "idle" /\ send'.pc = "popped") => send'.item = None

\* C12: once the dispatcher has popped the sentinel None, it pops no real
\* message and transmits nothing afterwards, whatever -m messages init
\* enqueued and whatever lines the input thread enqueues.
C12_NothingAfterSentinel == [][C12_Step]_vars

\* C13: with one target address the messages are transmitted in the order
\* send_input enqueued them, for every interleaving of the input thread's
\* pushes with the dispatcher's pops and returns to the tail.
C13_SingleTargetKeepsOrder ==
    Len(send.urls) = 1 =>
        \A i \in 1..Len(send.log) : send.log[i].body = i

\* An item was returned to the tail for lack of credit, after the input
\* thread had pushed a line and a message had been transmitted.
C13_Witness ==
    /\ Len(send.urls) = 1
    /\ last = [op |-> "send_message", arg |-> "returned"]
    /\ send.lines > 0
    /\ Len(send.messages) > 1
    /\ send.log # <<>>

\* C14: once close has been invoked the counters sent_messages and
\* settled_messages are equal: they are equal when close is invoked and no
\* message is transmitted afterwards.
C14_CountersEqualAfterClose ==
    send.closed => send.sent_messages = send.settled_messages

\* C18: no message is popped or transmitted before the ready latch is set,
\* and the latch is set only when every sender link created in on_start
\* has been opened and counted.
C18_ReadyLatch ==
    /\ (send.log # <<>> \/ send.pc = "popped") => send.ready
    /\ send.ready => /\ send.started
                     /\ send.opened = Range(send.urls)
                     /\ send.opened_senders = Len(send.urls)

\* Two targets, both opened, and a message transmitted.
C18_Witness ==
    /\ Len(send.urls) > 1
    /\ send.ready
    /\ send.log # <<>>

\* The step in which the handler of an input event, having popped a
\* message, handles it and returns.
InputHandled ==
    /\ send.pc = "popped"
    /\ send.link = NoLink
    /\ send.item # None
    /\ send'.pc = "idle"

C19_StepDrains ==
    InputHandled =>
        \/ send'.messages = <<>>
        \/ send'.credit[send'.pick] = 0

\* C19 as stated: when the handler of an input event returns with the latch
\* set, the deque is empty or the chosen sender has no credit.
C19_InputDrainsDeque == [][C19_StepDrains]_vars

C19_Step ==
    InputHandled =>
        LET sender == Last(send.senders)
            entry == [sender |-> sender, body |-> send.item]
        IN /\ send'.pick = sender
           /\ IF send.credit[sender] > 0
              THEN /\ send'.log = Append(send.log, entry)
                   /\ send'.messages = send.messages
                   /\ send'.credit[sender] = send.credit[sender] - 1
              ELSE /\ send'.log = send.log
                   /\ send'.messages = Append(send.messages, send.item)
                   /\ send'.credit = send.credit

\* C19: the handler of an input event, with the latch set, handles the one
\* item it popped from the tail: it transmits it on the chosen sender if
\* that sender has credit and leaves the rest of the deque as it is, else
\* it returns the item to the tail and transmits nothing.
C19_InputHandlesOneItem == [][C19_Step]_vars

\* An input event's message was transmitted and the deque still holds a
\* message while the chosen sender has credit left.
C19_Witness ==
    /\ last = [op |-> "send_message", arg |-> "sent"]
    /\ send.pick # NoLink
    /\ send.log # <<>>
    /\ Last(send.log).sender = send.pick
    /\ send.messages # <<>>
    /\ Last(send.messages) # None
    /\ send.credit[send.pick] > 0

\* The URL after s in the command line's order, cyclically.
NextUrl(urls, s) ==
    LET i == CHOOSE k \in 1..Len(urls) : urls[k] = s
    IN urls[(i % Len(urls)) + 1]

\* C20 as stated: with several targets, consecutive transmitted messages go
\* to consecutive senders in URL order, cyclically, for every interleaving
\* of input events and credit events.
C20_TransmissionsRoundRobin ==
    Len(send.urls) > 1 =>
        \A i \in 1..Len(send.log) - 1 :
            send.log[i + 1].sender = NextUrl(send.urls, send.log[i].sender)

\* The step in which send_message handles the message it popped.
MessageHandled ==
    /\ send.pc = "popped"
    /\ send.item # None
    /\ send'.pc = "idle"

C20_Step ==
    MessageHandled =>
        LET chosen == IF send.link # NoLink THEN send.link ELSE send'.pick
        IN /\ send.link = NoLink =>
                send'.pick = IF send.pick = NoLink THEN send.urls[1]
                             ELSE NextUrl(send.urls, send.pick)
           /\ send.link # NoLink => send'.pick = send.pick
           /\ send'.log # send.log =>
                send'.log = Append(send.log, [sender |-> chosen, body |-> send.item])

\* C20: the senders chosen for input events go in URL order, cyclically,
\* starting with the first URL, and the choice advances whether or not the
\* chosen sender has credit; the message of a credit event is transmitted
\* on the link of that event and leaves the rotation where it was.
C20_InputChoicesRoundRobin == [][C20_Step]_vars

\* With several targets the rotation has reached the second URL, and the
\* last two transmissions went to the first and the second URL.
C20_Witness ==
    /\ Len(send.urls) > 1
    /\ last = [op |-> "send_message", arg |-> "sent"]
    /\ send.pick = send.urls[Len(send.urls)]
    /\ Len(send.log) > 1
    /\ Last(send.log).sender = send.pick
    /\ Last(Front(send.log)).sender = send.urls[1]

\* The send client under fair scheduling: the reactor handles every event
\* that is waiting, the links open, the input ends, the peer settles every
\* delivery and grants credit to every sender that is below its window.
LiveSend ==
    /\ InitSend
    /\ [][NextSend]_vars
    /\ WF_vars(send_on_start)
    /\ WF_vars(send_on_input)
    /\ WF_vars(send_message)
    /\ WF_vars(send_on_settled)
    /\ WF_vars(feeder_eof)
    /\ \A s \in Range(SendUrls) :
         /\ WF_vars(send_on_link_opened(s))
         /\ WF_vars(send_on_sendable(s))
         /\ WF_vars(\E n \in 1..MaxCredit : send_flow(s, n))

Transmitted(m) == \E i \in 1..Len(send.log) : send.log[i].body = m

\* The messages enqueued before the first sentinel: the -m messages if
\* there are any, else the lines of the input.
FirstBatch == IF send.args > 0 THEN 1..send.args ELSE 1..send.nid

request_send_input(st, message, delivered) ==
    [st EXCEPT !.requests = <<message>> \o @,
               !.nid = IF message = None THEN @ ELSE @ + 1,
               !.inputs = IF delivered THEN @ + 1 ELSE @]

\* RequestCommand.__init__ and _Handler.__init__
request_new ==
    [requests |-> <<>>, nid |-> 0, inputs |-> 0, ready |-> FALSE,
     feeder |-> "waiting", lines |-> 0, stop_requested |-> FALSE,
     sent_requests |-> 0, settled_requests |-> 0, received_responses |-> 0,
     credit |-> 0, flow |-> FALSE, closes |-> 0]

\* init: the loop over args.request.
RECURSIVE init_requests(_, _)
init_requests(st, k) ==
    IF k = 0 THEN st
    ELSE init_requests(request_send_input(st, st.nid + 1, TRUE), k - 1)

\* init with k -r options.
request_init(st, k) ==
    LET q == init_requests(st, k)
    IN IF q.requests # <<>> THEN request_send_input(q, None, TRUE) ELSE q

\* close
request_close(st) == [st EXCEPT !.closes = @ + 1]

\* The send client's test: every request sent has been settled.
all_settled(st) == st.sent_requests = st.settled_requests

\* self.sent_requests == self.received_responses
all_responded(st) == st.sent_requests = st.received_responses

\* send_request; the one sender is chosen whatever event.link is.
send_request(st) ==
    IF st.stop_requested THEN st
    ELSE IF ~st.ready THEN st
    ELSE IF st.requests = <<>> THEN st
    ELSE LET request_ == Last(st.requests)
             popped == [st EXCEPT !.requests = Front(@)]
         IN IF request_ = None
            THEN IF all_responded(popped)
                 THEN request_close(popped)
                 ELSE [popped EXCEPT !.stop_requested = TRUE]
            ELSE IF popped.credit = 0
                 THEN [popped EXCEPT !.requests = Append(@, request_)]
                 ELSE [popped EXCEPT !.credit = @ - 1,
                                     !.sent_requests = @ + 1]

\* The sender link and its receiver are open: the latch is set.
request_on_link_opened ==
    /\ ~request.ready
    /\ request' = [request EXCEPT !.ready = TRUE]
    /\ last' = [op |-> "on_link_opened", arg |-> NoLink]
    /\ UNCHANGED <<broker, receive, send>>

\* The input thread: one line read and enqueued.
request_line ==
    /\ request.ready
    /\ request.feeder # "done"
    /\ request.lines < MaxLines
    /\ \E delivered \in {TRUE, request.closes = 0} :
         request' = [request_send_input(request, request.nid + 1, delivered)
                       EXCEPT !.feeder = "reading", !.lines = @ + 1]
    /\ last' = [op |-> "request_line", arg |-> NoLink]
    /\ UNCHANGED <<broker, receive, send>>

\* The input thread: end of the input.
request_eof ==
    /\ request.ready
    /\ request.feeder # "done"
    /\ \E delivered \in {TRUE, request.closes = 0} :
         request' = [request_send_input(request, None, delivered)
                       EXCEPT !.feeder = "done"]
    /\ last' = [op |-> "request_eof", arg |-> NoLink]
    /\ UNCHANGED <<broker, receive, send>>

\* The peer grants the sender n more credit; the link raises a flow event.
request_flow(n) ==
    /\ request.ready
    /\ request.closes = 0
    /\ request.credit + n <= MaxCredit
    /\ request' = [request EXCEPT !.credit = @ + n, !.flow = TRUE]
    /\ last' = [op |-> "flow", arg |-> NoLink]
    /\ UNCHANGED <<broker, receive, send>>

request_on_sendable ==
    /\ request.flow
    /\ request.credit > 0
    /\ request' = send_request([request EXCEPT !.flow = FALSE])
    /\ last' = [op |-> "on_sendable", arg |-> NoLink]
    /\ UNCHANGED <<broker, receive, send>>

request_on_input ==
    /\ request.inputs > 0
    /\ request' = send_request([request EXCEPT !.inputs = @ - 1])
    /\ last' = [op |-> "on_input", arg |-> NoLink]
    /\ UNCHANGED <<broker, receive, send>>

\* on_settled: the peer settles one of the requests in flight.
request_on_settled ==
    /\ request.closes = 0
    /\ request.settled_requests < request.sent_requests
    /\ LET st == [request EXCEPT !.settled_requests = @ + 1]
       IN request' = IF st.stop_requested /\ all_responded(st)
                     THEN request_close(st)
                     ELSE st
    /\ last' = [op |-> "on_settled", arg |-> NoLink]
    /\ UNCHANGED <<broker, receive, send>>

\* on_message: the response to one of the requests not yet answered.
request_on_message ==
    /\ request.closes = 0
    /\ request.received_responses < request.sent_requests
    /\ LET st == [request EXCEPT !.received_responses = @ + 1]
       IN request' = IF st.stop_requested /\ all_responded(st)
                     THEN request_close(st)
                     ELSE st
    /\ last' = [op |-> "on_message", arg |-> NoLink]
    /\ UNCHANGED <<broker, receive, send>>

InitRequest ==
    /\ queues = <<>>
    /\ conn = [c \in Conns |-> "UNINIT"]
    /\ remote = [l \in Links |-> "UNINIT"]
    /\ address = [l \in Links |-> NoAddr]
    /\ credit = [l \in Links |-> 0]
    /\ sendable = [l \in Links |-> FALSE]
    /\ error = "none"
    /\ stored = [a \in Addrs |-> <<>>]
    /\ sent = [l \in Links |-> <<>>]
    /\ nmsg = 0
    /\ last = [op |-> "init", arg |-> NoLink]
    /\ receive = "absent"
    /\ send = "absent"
    /\ \E k \in 0..MaxArgs : request = request_init(request_new, k)

NextRequest ==
    \/ request_on_link_opened
    \/ request_line
    \/ request_eof
    \/ \E n \in 1..MaxCredit : request_flow(n)
    \/ request_on_sendable
    \/ request_on_input
    \/ request_on_settled
    \/ request_on_message

SpecRequest == InitRequest /\ [][NextRequest]_vars

C15_Step ==
    request'.closes # request.closes =>
        request'.sent_requests = request'.received_responses

\* C15: the request client invokes close only when sent_requests equals
\* received_responses, from the sentinel branch, from on_settled and from
\* on_message alike; requests that are all settled but not all answered do
\* not close it.
C15_ClosesOnlyWhenAnswered == [][C15_Step]_vars

\* close was invoked from on_message after stop was requested and every
\* request had been settled.
C15_Witness ==
    /\ last.op = "on_message"
    /\ request.closes = 1
    /\ request.stop_requested
    /\ request.sent_requests > 0
    /\ request.settled_requests = request.sent_requests

(***************************************************************************)
(* The broker's messages over a whole run.                                 *)
(***************************************************************************)
\* The links on which message m was handed over.
HandedTo(m) == {l \in Links : \E i \in 1..Len(sent[l]) : sent[l][i] = m}

\* What was stored on queue a is what was handed over, each message once and
\* to a link of the queue, followed by what is pending.
Conserved(a) ==
    LET s == stored[a]
        p == Pending(queues, a)
        n == Len(s) - Len(p)
    IN /\ n >= 0
       /\ SubSeq(s, n + 1, Len(s)) = p
       /\ \A i \in 1..Len(s) :
            /\ Cardinality(Handed(s[i])) = IF i <= n THEN 1 ELSE 0
            /\ \A l \in HandedTo(s[i]) : address[l] = a

\* The messages handed over in this step.
HandedNow == {m \in 1..nmsg' : HandedTo(m)' # HandedTo(m)}

C21_Step ==
    /\ \A a \in Addrs : Conserved(a)'
    /\ \A a \in Addrs :
         \A m \in Range(Pending(queues, a)) \cup
                  (Range(stored'[a]) \ Range(stored[a])) :
            m \notin Range(Pending(queues', a)) =>
                /\ last'.op \in {"on_sendable", "on_message"}
                /\ m \in HandedNow

\* C21: after every step, what was stored on a queue is the messages handed
\* to its consumer links, each once, followed by the queue's pending
\* messages; a message leaves the pending FIFO only in a step that runs
\* forward_messages, by being handed to a link.
C21_MessagesConserved == [][C21_Step]_vars

\* Three messages stored on one queue: the first two were handed to two
\* different links, the third is pending.
C21_Witness ==
    /\ last.op = "on_sendable"
    /\ address["s1"] = address["s2"]
    /\ address["s1"] \in DOMAIN queues
    /\ stored[address["s1"]] = <<1, 2, 3>>
    /\ Len(sent["s1"]) = 1
    /\ Len(sent["s2"]) = 1
    /\ queues[address["s1"]].messages = <<3>>

C22_Step ==
    \A l \in Links :
        sent'[l] # sent[l] =>
            /\ address[l] \in DOMAIN queues
            /\ l \in Range(queues[address[l]].consumers)
            /\ l \in Range(queues'[address[l]].consumers)
            /\ \A i \in Len(sent[l]) + 1..Len(sent'[l]) :
                 sent'[l][i] \in Range(stored'[address[l]])

=============================================================================
